---- MODULE Spec2Model ----
(***************************************************************************)
(* Model of app.py of the AI Streamlit Playground: the macro expander      *)
(* process_prompt, the sidebar's default provider / default model          *)
(* resolution, the chat submission pipeline, the text transformation, and  *)
(* load_config and load_templates.                                         *)
(*                                                                         *)
(* A text is a sequence of one-character strings, so that the regular      *)
(* expression @\[([^]]+)\] of process_prompt, str.strip and the literal    *)
(* markers are computed character by character.                            *)
(***************************************************************************)
EXTENDS Integers, Sequences, FiniteSets, TLC

VARIABLES
    fs,              \* the files under the working directory: path -> file
    \* one call of process_prompt, pass by pass
    arg,             \* the argument it was called with
    text,            \* its local variable text
    passes,          \* number of re.sub passes begun
    pc,              \* "idle", "loop", "done", "raised"
    \* the session
    messages,        \* st.session_state["messages"]: the Conversation
    system_prompt,   \* st.session_state["system_prompt_input"]
    uploaded_files,  \* the files held by the chat uploader widget
    \* the last run of the script
    outcome,         \* how the run ended, "none" when it was no chat submission
    list_models,     \* what list_models() did in that run
    selected_model,  \* the model the sidebar selected in that run, or NoModel
    prompt,          \* the text entered in st.chat_input
    reply,           \* what the provider did when chat() was called
    payload,         \* messages_payload as passed to chat(), <<>> if not called
    prior,           \* the Conversation when the run began
    template,        \* templates[selected_template] of a transformation
    user_text,       \* the text area of a transformation
    entered,         \* per stored message: what the user typed and attached
    \* the sidebar
    provider_names,  \* list(available_providers.keys())
    listing,         \* per provider name: what its list_models() does
    config,          \* what load_config() returns
    side,            \* "start", "stopped", "provider", "model", "no_model"
    default_provider_index,
    selected_provider_name,
    default_index,
    \* configuration and templates
    config_file,     \* config.json on disk
    template_dir,    \* the templates directory on disk
    templates,       \* what load_templates() returned
    loading          \* how far the run came: "start", "sidebar", "templates",
                     \* "sidebar_raised", "templates_raised"

expandVars == <<arg, text, passes, pc>>
sessionVars == <<messages, system_prompt, uploaded_files>>
runVars == <<outcome, list_models, selected_model, prompt, reply, payload, prior,
             template, user_text>>
sidebarVars == <<provider_names, listing, config, side, default_provider_index,
                 selected_provider_name, default_index>>
templateVars == <<config_file, template_dir, templates, loading>>
vars == <<fs, expandVars, sessionVars, runVars, entered, sidebarVars, templateVars>>

(***************************************************************************)
(* Bounds and program constants                                            *)
(***************************************************************************)
MaxLen == 5          \* longest text enumerated exhaustively over Chars
MaxPasses == 3       \* for _ in range(3)
MaxTurns == 2        \* chat submissions modelled before a reset is needed

Chars == {"@", "[", "]", "a", " "}
Whitespace == {" ", "\n"}

(***************************************************************************)
(* Texts                                                                   *)
(***************************************************************************)
Ref(p) == <<"@", "[">> \o p \o <<"]">>

NotFoundMarker(path) ==
    <<"[", "F", "i", "l", "e", " ", "n", "o", "t", " ", "f", "o", "u", "n", "d", ":", " ">>
        \o path \o <<"]">>

ErrorMarker(path) ==
    <<"[", "E", "r", "r", "o", "r", " ", "r", "e", "a", "d", "i", "n", "g", " ">>
        \o path \o <<"]">>

\* str.strip(): drop leading and trailing whitespace
RECURSIVE LStrip(_)
LStrip(s) == IF s # <<>> /\ Head(s) \in Whitespace THEN LStrip(Tail(s)) ELSE s

RECURSIVE RStrip(_)
RStrip(s) ==
    IF s # <<>> /\ s[Len(s)] \in Whitespace THEN RStrip(SubSeq(s, 1, Len(s) - 1)) ELSE s

Strip(s) == RStrip(LStrip(s))

(***************************************************************************)
(* Results of a call that may raise                                        *)
(***************************************************************************)
Ok(t) == [ok |-> TRUE, text |-> t]
Raised == [ok |-> FALSE, text |-> <<>>]

(***************************************************************************)
(* Files.  A path that is not in DOMAIN files does not exist.  An existing *)
(* file is readable text, fails with an OSError when opened or read, or    *)
(* holds bytes that are not valid UTF-8 (f.read() raises                   *)
(* UnicodeDecodeError, a ValueError).                                      *)
(***************************************************************************)
TextFile(c) == [kind |-> "text", content |-> c]
OSErrorFile == [kind |-> "oserror", content |-> <<>>]
BadUtf8File == [kind |-> "badutf8", content |-> <<>>]

\* replace_match with a marker that does not echo the path
replace_match_NoPath(path, files) ==
    IF path \in DOMAIN files
    THEN IF files[path].kind = "text" THEN Ok(Strip(files[path].content))
         ELSE IF files[path].kind = "oserror" THEN Ok(ErrorMarker(path))
         ELSE Raised
    ELSE Ok(NotFoundMarker(<<>>))

replace_match(path, files) ==
    IF path \in DOMAIN files
    THEN IF files[path].kind = "text" THEN Ok(Strip(files[path].content))
         ELSE IF files[path].kind = "oserror" THEN Ok(ErrorMarker(path))
         ELSE Raised
    ELSE Ok(NotFoundMarker(path))

(***************************************************************************)
(* re.sub(r'@\[([^]]+)\]', replace_match, text): leftmost, non-overlapping *)
(* matches, each replaced by replace_match of its group 1.                 *)
(***************************************************************************)
\* index of the first "]" at or after i, 0 if there is none
FirstClose(t, i) ==
    IF \E j \in i..Len(t) : t[j] = "]"
    THEN CHOOSE j \in i..Len(t) : t[j] = "]" /\ \A k \in i..(j - 1) : t[k] # "]"
    ELSE 0

\* index of the closing "]" of the match that starts at i, 0 if none starts there
MatchEnd(t, i) ==
    IF i + 2 <= Len(t) /\ t[i] = "@" /\ t[i + 1] = "[" /\ t[i + 2] # "]"
    THEN FirstClose(t, i + 3)
    ELSE 0

RECURSIVE SubFrom(_, _, _)
SubFrom(t, i, files) ==
    IF i > Len(t) THEN Ok(<<>>)
    ELSE LET j == MatchEnd(t, i) IN
         IF j = 0
         THEN LET rest == SubFrom(t, i + 1, files) IN
              IF rest.ok THEN Ok(<<t[i]>> \o rest.text) ELSE Raised
         ELSE LET r == replace_match(SubSeq(t, i + 2, j - 1), files) IN
              IF ~r.ok THEN Raised
              ELSE LET rest == SubFrom(t, j + 1, files) IN
                   IF rest.ok THEN Ok(r.text \o rest.text) ELSE Raised

\* re.sub whose result is stripped like the contents of a file
re_sub_Stripped(t, files) ==
    IF SubFrom(t, 1, files).ok THEN Ok(Strip(SubFrom(t, 1, files).text)) ELSE Raised

re_sub(t, files) == SubFrom(t, 1, files)

\* the text holds a match of the pattern
HasMatch(t) == \E i \in 1..Len(t) : MatchEnd(t, i) # 0

(***************************************************************************)
(* process_prompt.  A frame holds its position and locals: pc is "loop"    *)
(* while the for loop runs, "done" once it returned, "raised" when an      *)
(* exception left it; passes counts the re.sub passes begun.               *)
(***************************************************************************)
Frame(p, t, n) == [pc |-> p, text |-> t, passes |-> n]

\* if not text: return text; otherwise the for loop is entered
Enter(t) == IF t = <<>> THEN Frame("done", t, 0) ELSE Frame("loop", t, 0)

\* the loop body of a loop that runs range(4)
LoopBody_FourPasses(f, files) ==
    LET new_text == re_sub(f.text, files) IN
    IF ~new_text.ok THEN Frame("raised", f.text, f.passes + 1)
    ELSE IF new_text.text = f.text THEN Frame("done", f.text, f.passes + 1)
    ELSE Frame(IF f.passes + 1 < MaxPasses + 1 THEN "loop" ELSE "done",
               new_text.text, f.passes + 1)

\* one iteration of for _ in range(3)
LoopBody(f, files) ==
    LET new_text == re_sub(f.text, files) IN
    IF ~new_text.ok THEN Frame("raised", f.text, f.passes + 1)
    ELSE IF new_text.text = f.text THEN Frame("done", f.text, f.passes + 1)
    ELSE Frame(IF f.passes + 1 < MaxPasses THEN "loop" ELSE "done",
               new_text.text, f.passes + 1)

RECURSIVE RunLoop(_, _)
RunLoop(f, files) == IF f.pc = "loop" THEN RunLoop(LoopBody(f, files), files) ELSE f

process_prompt(t, files) ==
    LET f == RunLoop(Enter(t), files) IN IF f.pc = "done" THEN Ok(f.text) ELSE Raised

(***************************************************************************)
(* Chat mode: the parts of one submission                                  *)
(***************************************************************************)
NoModel == "None"

Message(r, c) == [role |-> r, content |-> c]

\* str(n) for a natural number n
Digit(d) == <<"0", "1", "2", "3", "4", "5", "6", "7", "8", "9">>[d + 1]

RECURSIVE Str(_)
Str(n) == IF n < 10 THEN <<Digit(n)>> ELSE Str(n \div 10) \o <<Digit(n % 10)>>

\* an uploaded file: its name and either its decoded text or the message of
\* the exception its decoding raised
Upload(n, c) == [name |-> n, decodes |-> TRUE, data |-> c]
BadUpload(n, e) == [name |-> n, decodes |-> FALSE, data |-> e]

read_uploaded_file(file) ==
    IF file.decodes THEN file.data
    ELSE <<"[", "E", "r", "r", "o", "r", " ", "r", "e", "a", "d", "i", "n", "g", " ">>
             \o file.name \o <<":", " ">> \o file.data \o <<"]">>

RECURSIVE FileEntries(_)
FileEntries(files) ==
    IF files = <<>> THEN <<>>
    ELSE <<"\n", "F", "i", "l", "e", ":", " ">> \o Head(files).name
             \o <<"\n", "C", "o", "n", "t", "e", "n", "t", ":", "\n">>
             \o read_uploaded_file(Head(files)) \o <<"\n">>
             \o FileEntries(Tail(files))

\* file_contents, the block appended to processed_prompt
file_contents(files) ==
    <<"\n", "\n", "-", "-", "-", " ", "U", "p", "l", "o", "a", "d", "e", "d", " ",
      "F", "i", "l", "e", "s", " ", "-", "-", "-", "\n">>
        \o FileEntries(files)
        \o <<"\n", "-", "-", "-", "-", "-", "-", "-", "-", "-", "-", "-", "-", "-", "-",
             "-", "-", "-", "-", "-", "-", "-", "-", "\n">>

\* the note appended to prompt when files are attached
AttachedNote(n) ==
    <<" ", "*", "(">> \o Str(n)
        \o <<" ", "f", "i", "l", "e", "s", " ", "a", "t", "t", "a", "c", "h", "e", "d", ")", "*">>

\* the stored prompt, had the file block been appended to prompt
StoredPrompt_WithBlock(p, files) == IF files # <<>> THEN p \o file_contents(files) ELSE p

\* prompt as it is appended to the Conversation
StoredPrompt(p, files) == IF files # <<>> THEN p \o AttachedNote(Len(files)) ELSE p

\* processed_prompt as it is sent, given the expansion of the prompt
SentPrompt(expanded, files) ==
    IF files # <<>> THEN expanded \o file_contents(files) ELSE expanded

\* for m in st.session_state["messages"][:-1]: each message re-expanded
RECURSIVE ExpandHistory(_, _)
ExpandHistory(msgs, files) ==
    IF msgs = <<>> THEN [ok |-> TRUE, msgs |-> <<>>]
    ELSE LET c == process_prompt(Head(msgs).content, files) IN
         IF ~c.ok THEN [ok |-> FALSE, msgs |-> <<>>]
         ELSE LET rest == ExpandHistory(Tail(msgs), files) IN
              IF ~rest.ok THEN [ok |-> FALSE, msgs |-> <<>>]
              ELSE [ok |-> TRUE, msgs |-> <<Message(Head(msgs).role, c.text)>> \o rest.msgs]

\* messages_payload without the [:-1]: the user's message is sent twice
messages_payload_WholeHistory(msgs, sysp, processed_prompt, files) ==
    LET head == IF sysp # <<>> THEN <<Message("system", sysp)>> ELSE <<>>
        hist == ExpandHistory(msgs, files)
    IN  IF ~hist.ok THEN [ok |-> FALSE, msgs |-> <<>>]
        ELSE [ok |-> TRUE,
              msgs |-> head \o hist.msgs \o <<Message("user", processed_prompt)>>]

\* messages_payload, built from the Conversation that already ends in the
\* user's message; not ok when a re-expansion raised
messages_payload(msgs, sysp, processed_prompt, files) ==
    LET head == IF sysp # <<>> THEN <<Message("system", sysp)>> ELSE <<>>
        hist == ExpandHistory(SubSeq(msgs, 1, Len(msgs) - 1), files)
    IN  IF ~hist.ok THEN [ok |-> FALSE, msgs |-> <<>>]
        ELSE [ok |-> TRUE,
              msgs |-> head \o hist.msgs \o <<Message("user", processed_prompt)>>]

\* the stream loop with chunk + full_response for full_response + chunk
RECURSIVE Consume_Prepends(_, _)
Consume_Prepends(full_response, chunks) ==
    IF chunks = <<>> THEN full_response
    ELSE Consume_Prepends(IF Head(chunks) # <<>> THEN Head(chunks) \o full_response
                          ELSE full_response,
                          Tail(chunks))

\* for chunk in stream: full_response after the chunks the stream yielded
RECURSIVE Consume(_, _)
Consume(full_response, chunks) ==
    IF chunks = <<>> THEN full_response
    ELSE Consume(IF Head(chunks) # <<>> THEN full_response \o Head(chunks)
                 ELSE full_response,
                 Tail(chunks))

\* what chat() and its stream do: chat() raises, or the stream yields chunks
\* and then ends or raises
ChatRaises == [raises |-> TRUE, chunks |-> <<>>, fails |-> FALSE]
Stream(c, f) == [raises |-> FALSE, chunks |-> c, fails |-> f]

\* the submission, had the assistant's message been appended inside the try
Turn_AppendsInsideTry(msgs, sysp, files, p, expanded, rep, disk) ==
    LET stored == Append(msgs, Message("user", StoredPrompt(p, files)))
        built == messages_payload(stored, sysp, SentPrompt(expanded, files), disk)
        completed == built.ok /\ ~rep.raises /\ ~rep.fails
    IN  [messages |-> IF completed
                      THEN Append(stored, Message("assistant", Consume(<<>>, rep.chunks)))
                      ELSE stored,
         payload |-> IF built.ok THEN built.msgs ELSE <<>>,
         outcome |-> IF ~built.ok THEN "history_raised"
                     ELSE IF rep.raises THEN "chat_raised"
                     ELSE IF rep.fails THEN "stream_raised"
                     ELSE "completed"]

\* the submission, had it kept the re-expanded history as the Conversation
Turn_StoresExpansion(msgs, sysp, files, p, expanded, rep, disk) ==
    LET hist == ExpandHistory(msgs, disk)
        kept == IF hist.ok THEN hist.msgs ELSE msgs
        stored == Append(msgs, Message("user", StoredPrompt(p, files)))
        built == messages_payload(stored, sysp, SentPrompt(expanded, files), disk)
        full_response ==
            IF built.ok /\ ~rep.raises THEN Consume(<<>>, rep.chunks) ELSE <<>>
    IN  [messages |-> kept \o << Message("user", StoredPrompt(p, files)),
                                  Message("assistant", full_response) >>,
         payload |-> IF built.ok THEN built.msgs ELSE <<>>,
         outcome |-> IF ~built.ok THEN "history_raised"
                     ELSE IF rep.raises THEN "chat_raised"
                     ELSE IF rep.fails THEN "stream_raised"
                     ELSE "completed"]

\* the submission from the append of the user's message to the append of the
\* assistant's: the Conversation, the payload and how the try block ended
Turn(msgs, sysp, files, p, expanded, rep, disk) ==
    LET stored == Append(msgs, Message("user", StoredPrompt(p, files)))
        built == messages_payload(stored, sysp, SentPrompt(expanded, files), disk)
        full_response ==
            IF built.ok /\ ~rep.raises THEN Consume(<<>>, rep.chunks) ELSE <<>>
    IN  [messages |-> Append(stored, Message("assistant", full_response)),
         payload |-> IF built.ok THEN built.msgs ELSE <<>>,
         outcome |-> IF ~built.ok THEN "history_raised"
                     ELSE IF rep.raises THEN "chat_raised"
                     ELSE IF rep.fails THEN "stream_raised"
                     ELSE "completed"]

(***************************************************************************)
(* The text transformation                                                 *)
(***************************************************************************)
\* prompt = f"{template_text}\n\n{processed_user_text}"
TransformPrompt_OneNewline(template_text, processed_user_text) ==
    template_text \o <<"\n">> \o processed_user_text

TransformPrompt(template_text, processed_user_text) ==
    template_text \o <<"\n", "\n">> \o processed_user_text

\* messages_payload of the transformation
transformation_payload(sysp, p) ==
    (IF sysp # <<>> THEN <<Message("system", sysp)>> ELSE <<>>)
        \o <<Message("user", p)>>

\* if transform_button: the payload passed to chat(), <<>> when chat() is not
\* called, and how the run ended
Transformation(model, sysp, tmpl, ut, rep, disk) ==
    LET template_text == process_prompt(tmpl, disk)
        processed_user_text == process_prompt(ut, disk)
    IN  IF model = NoModel
        THEN [payload |-> <<>>, outcome |-> "t_no_model"]
        ELSE IF ut = <<>>
        THEN [payload |-> <<>>, outcome |-> "t_no_text"]
        ELSE IF ~template_text.ok \/ ~processed_user_text.ok
        THEN [payload |-> <<>>, outcome |-> "t_expand_raised"]
        ELSE [payload |-> transformation_payload(sysp,
                              TransformPrompt(template_text.text,
                                              processed_user_text.text)),
              outcome |-> IF rep.raises THEN "t_chat_raised"
                          ELSE IF rep.fails THEN "t_stream_raised"
                          ELSE "transformed"]

(***************************************************************************)
(* The sidebar: default provider and default model                         *)
(***************************************************************************)
OllamaName == <<"O", "l", "l", "a", "m", "a", " ", "(", "L", "o", "c", "a", "l", ")">>
WatsonxName == <<"I", "B", "M", " ", "w", "a", "t", "s", "o", "n", "x">>

\* available_providers: Ollama is entered first, watsonx second
available_providers(ollama, watsonx) ==
    (IF ollama THEN <<OllamaName>> ELSE <<>>) \o (IF watsonx THEN <<WatsonxName>> ELSE <<>>)

UpperCase == <<"A", "B", "C", "D", "E", "F", "G", "H", "I", "J", "K", "L", "M",
               "N", "O", "P", "Q", "R", "S", "T", "U", "V", "W", "X", "Y", "Z">>
LowerCase == <<"a", "b", "c", "d", "e", "f", "g", "h", "i", "j", "k", "l", "m",
               "n", "o", "p", "q", "r", "s", "t", "u", "v", "w", "x", "y", "z">>

\* str.lower()
lower(t) ==
    [i \in 1..Len(t) |->
        IF \E k \in 1..26 : UpperCase[k] = t[i]
        THEN LowerCase[CHOOSE k \in 1..26 : UpperCase[k] = t[i]]
        ELSE t[i]]

\* needle in hay
Contains(hay, needle) ==
    \E i \in 0..(Len(hay) - Len(needle)) : SubSeq(hay, i + 1, i + Len(needle)) = needle

\* the provider loop without the two lower() calls
RECURSIVE FirstProviderMatch_CaseSensitive(_, _, _)
FirstProviderMatch_CaseSensitive(names, default_provider, i) ==
    IF i >= Len(names) THEN 0
    ELSE IF Contains(names[i + 1], default_provider) THEN i
    ELSE FirstProviderMatch_CaseSensitive(names, default_provider, i + 1)

\* for i, name in enumerate(provider_names): the index of the first name that
\* holds the default, from position i on; 0 when the loop ends without a match
RECURSIVE FirstProviderMatch(_, _, _)
FirstProviderMatch(names, default_provider, i) ==
    IF i >= Len(names) THEN 0
    ELSE IF Contains(lower(names[i + 1]), lower(default_provider)) THEN i
    ELSE FirstProviderMatch(names, default_provider, i + 1)

\* default_provider_index (an index from 0, as in the source)
ProviderIndex(names, cfg) ==
    IF cfg.default_provider # <<>>
    THEN FirstProviderMatch(names, cfg.default_provider, 0)
    ELSE 0

\* a value Python takes as true
Truthy(m) == m \notin {NoModel, ""}

\* model_names.index(default_model), from 0
RECURSIVE IndexFrom(_, _, _)
IndexFrom(names, m, i) == IF names[i + 1] = m THEN i ELSE IndexFrom(names, m, i + 1)

InList(names, m) == \E k \in 1..Len(names) : names[k] = m

\* default_index (an index from 0, as in the source)
ModelIndex(model_names, provider_name, cfg) ==
    LET provider_key ==
            IF Contains(provider_name, <<"O", "l", "l", "a", "m", "a">>)
            THEN "ollama" ELSE "watsonx"
        provider_default == cfg.providers[provider_key]
        default_model ==
            IF ~Truthy(provider_default) THEN cfg.default_model ELSE provider_default
    IN  IF Truthy(default_model) /\ InList(model_names, default_model)
        THEN IndexFrom(model_names, default_model, 0)
        ELSE 0

(***************************************************************************)
(* A chat submission, from the model the sidebar left                      *)
(***************************************************************************)
ListRaises == <<"raises">>

\* the values selected_model can have after the sidebar: None when
\* list_models() raised or returned no model, else a model of the selectbox
SelectableModels(names) ==
    IF names = ListRaises \/ names = <<>> THEN {NoModel}
    ELSE { names[k] : k \in 1..Len(names) }

\* the submission without the guard on selected_model
Submission_Unguarded(model, msgs, sysp, files, p, rep, disk) ==
    LET processed_prompt == process_prompt(p, disk) IN
    IF ~processed_prompt.ok
    THEN [messages |-> msgs, payload |-> <<>>, outcome |-> "crashed"]
    ELSE Turn(msgs, sysp, files, p, processed_prompt.text, rep, disk)

\* if prompt := st.chat_input(...): the Conversation, the payload passed to
\* chat() (<<>> when it is not called) and how the run ended
Submission(model, msgs, sysp, files, p, rep, disk) ==
    LET processed_prompt == process_prompt(p, disk) IN
    IF ~Truthy(model)
    THEN [messages |-> msgs, payload |-> <<>>, outcome |-> "no_model"]
    ELSE IF ~processed_prompt.ok
    THEN [messages |-> msgs, payload |-> <<>>, outcome |-> "crashed"]
    ELSE Turn(msgs, sysp, files, p, processed_prompt.text, rep, disk)

(***************************************************************************)
(* Configuration and templates.  A dictionary is a function of its keys,   *)
(* so that d[k] of a key that is not in DOMAIN d is the KeyError.          *)
(***************************************************************************)
\* d.get(k, default)
get(d, k, default) == IF k \in DOMAIN d THEN d[k] ELSE default

\* the result of a call that returns a value or lets an exception out
Loaded(v) == [ok |-> TRUE, value |-> v]
Aborted == [ok |-> FALSE, value |-> <<>>]

\* config.json: absent, an object, text that is no JSON, or a file as above
NoFile == [kind |-> "absent", content |-> <<>>]
JsonFile(d) == [kind |-> "json", content |-> d]
MalformedFile == [kind |-> "malformed", content |-> <<>>]

\* the dictionary load_config returns when it could not load the file
DefaultConfig == [default_model |-> NoModel, templates |-> <<>>, providers |-> <<>>]

load_config(file) ==
    IF file.kind = "absent" THEN Loaded(DefaultConfig)
    ELSE IF file.kind = "json" THEN Loaded(file.content)
    ELSE IF file.kind \in {"malformed", "oserror"} THEN Loaded(DefaultConfig)
    ELSE Aborted

\* the values the sidebar reads from the dictionary
ConfigView(d) ==
    LET providers == get(d, "providers", <<>>) IN
    [ default_provider |-> get(d, "default_provider", <<>>),
      default_model |-> get(d, "default_model", NoModel),
      providers |->
          [ ollama |-> get(get(providers, "ollama", <<>>), "default_model", NoModel),
            watsonx |-> get(get(providers, "watsonx", <<>>), "default_model", NoModel) ] ]

\* the templates directory: absent, or its entries in the order of os.listdir
NoDir == [exists |-> FALSE, entries |-> <<>>]
Dir(es) == [exists |-> TRUE, entries |-> es]
Entry(filename, file) == [filename |-> filename, file |-> file]

\* filename.endswith(suffix)
EndsWith(t, suffix) ==
    Len(t) >= Len(suffix) /\ SubSeq(t, Len(t) - Len(suffix) + 1, Len(t)) = suffix

\* os.path.splitext(filename)[0] of a filename that ends with ".txt": leading
\* dots are no extension
splitext_stem(filename) ==
    IF \A i \in 1..(Len(filename) - 4) : filename[i] = "."
    THEN filename
    ELSE SubSeq(filename, 1, Len(filename) - 4)

\* str.replace("_", " ")
replace_underscores(t) == [i \in 1..Len(t) |-> IF t[i] = "_" THEN " " ELSE t[i]]

IsCased(c) == \E k \in 1..26 : UpperCase[k] = c \/ LowerCase[k] = c

\* str.upper()
upper(t) ==
    [i \in 1..Len(t) |->
        IF \E k \in 1..26 : LowerCase[k] = t[i]
        THEN UpperCase[CHOOSE k \in 1..26 : LowerCase[k] = t[i]]
        ELSE t[i]]

\* str.title(): a cased character is upper case after an uncased one or at
\* the start, lower case after a cased one
title(t) ==
    [i \in 1..Len(t) |->
        IF i = 1 \/ ~IsCased(t[i - 1]) THEN upper(<<t[i]>>)[1] ELSE lower(<<t[i]>>)[1]]

template_name(filename) == title(replace_underscores(splitext_stem(filename)))

DotTxt == <<".", "t", "x", "t">>

\* for filename in os.listdir(template_dir)
RECURSIVE ReadTemplates(_, _)
ReadTemplates(tmpl, entries) ==
    IF entries = <<>> THEN Loaded(tmpl)
    ELSE LET e == Head(entries) IN
         IF ~EndsWith(e.filename, DotTxt) THEN ReadTemplates(tmpl, Tail(entries))
         ELSE IF e.file.kind = "text"
         THEN ReadTemplates((template_name(e.filename) :> Strip(e.file.content)) @@ tmpl,
                            Tail(entries))
         ELSE IF e.file.kind = "oserror" THEN ReadTemplates(tmpl, Tail(entries))
         ELSE Aborted

load_templates(file, dir) ==
    LET c == load_config(file) IN
    IF ~c.ok THEN Aborted
    ELSE IF "templates" \notin DOMAIN c.value THEN Aborted
    ELSE IF ~dir.exists THEN Loaded(c.value.templates)
    ELSE ReadTemplates(c.value.templates, dir.entries)

(***************************************************************************)
(* The inputs of process_prompt that are enumerated                        *)
(***************************************************************************)
BoundedTexts == UNION {[1..n -> Chars] : n \in 0..MaxLen}

SampleTexts ==
    { Ref(<<"b">>), Ref(<<"c">>), Ref(<<"d">>), Ref(<<"e">>),
      Ref(<<"a">>) \o Ref(<<"e">>),
      Ref(<<"c">>) \o <<" ">> \o Ref(<<"m">>),
      <<"@">> \o Ref(<<"m">>),
      <<"a">> \o Ref(<<"b">>) \o <<"\n">>,
      Ref(<<"d">>) \o Ref(<<"b">>),
      Ref(<<"m", "i", "s", "s", "i", "n", "g", ".", "t", "x", "t">>) }

Texts == BoundedTexts \cup SampleTexts

\* a chain of five files, the first four each holding a reference to the next
FsChain ==
    (<<"a">> :> TextFile(<<" ">> \o Ref(<<"b">>) \o <<"\n">>)) @@
    (<<"b">> :> TextFile(Ref(<<"c">>))) @@
    (<<"c">> :> TextFile(<<"a", " ">> \o Ref(<<"d">>))) @@
    (<<"d">> :> TextFile(Ref(<<"e">>))) @@
    (<<"e">> :> TextFile(<<"a", " ", "a">>))

\* a file that includes itself, and two files that include each other
FsCycle ==
    (<<"a">> :> TextFile(Ref(<<"a">>))) @@
    (<<"b">> :> TextFile(Ref(<<"c">>))) @@
    (<<"c">> :> TextFile(Ref(<<"b">>))) @@
    (<<"d">> :> TextFile(<<"a">>))

\* files that cannot be read
FsUnreadable ==
    (<<"a">> :> OSErrorFile) @@
    (<<"b">> :> BadUtf8File) @@
    (<<"c">> :> TextFile(Ref(<<"b">>))) @@
    (<<"d">> :> TextFile(Ref(<<"a">>))) @@
    (<<"e">> :> TextFile(<<"a">>))

\* files whose contents are fragments of the macro syntax
FsFragments ==
    (<<"a">> :> TextFile(<<"a", "@">>)) @@
    (<<" ">> :> TextFile(<<"[", "a", "]">>)) @@
    (<<"a", "a">> :> TextFile(<<"@", "[">>)) @@
    (<<"b">> :> TextFile(<<"@", "[", "a">>)) @@
    (<<"[">> :> TextFile(<<"]">>))

FsPlain ==
    (<<"a">> :> TextFile(<<"a">>)) @@
    (<<" ">> :> TextFile(<<" ", "a", " ", "a", "\n">>)) @@
    (<<"a", "a">> :> TextFile(<<>>)) @@
    (<<"e">> :> TextFile(<<"a", "\n", "a">>))

FsEmpty == [p \in {} |-> OSErrorFile]

FileSystems == {FsChain, FsCycle, FsUnreadable, FsFragments, FsPlain, FsEmpty}

(***************************************************************************)
(* The inputs of the chat mode that are enumerated                         *)
(***************************************************************************)
FsChat ==
    (<<"g">> :> TextFile(<<"W", "\n">>)) @@
    (<<"b">> :> BadUtf8File)

Prompts == { <<"H", "i">>, <<"H", " ">> \o Ref(<<"g">>), Ref(<<"b">>) }

SystemPrompts == { <<>>, <<"S">> }

UploadSets == { <<>>, <<Upload(<<"f">>, <<"c">>), BadUpload(<<"p">>, <<"e">>)>> }

Models == { "llama3" }

\* what list_models() does in a run of the chat mode or the transformation
ChatListings == { ListRaises, <<>> } \cup { <<m>> : m \in Models }

Streams ==
    { <<>>,
      << <<"o", "k">> >>,
      << <<>>, <<"o", "k">>, Ref(<<"g">>) >>,
      << Ref(<<"b">>) >> }

Replies == {ChatRaises} \cup { Stream(c, f) : c \in Streams, f \in BOOLEAN }

\* the bodies of the templates offered by the selectbox
TemplateBodies ==
    { <<"T", ":">>, <<"T", " ">> \o Ref(<<"g">>), Ref(<<"b">>) }

\* what the text area of the transformation holds
UserTexts == { <<>>, <<"x">>, <<"x", " ">> \o Ref(<<"g">>) }

\* the sessions a transformation starts in: a new one, and those the chat mode
\* leaves after one turn
Sessions ==
    { [messages |-> <<>>, entered |-> <<>>] } \cup
    { [messages |-> Turn(<<>>, <<>>, <<>>, p, process_prompt(p, FsChat).text,
                         rep, FsChat).messages,
       entered |-> << [text |-> p, files |-> 0], [text |-> <<>>, files |-> 0] >>] :
        p \in { q \in Prompts : process_prompt(q, FsChat).ok },
        rep \in { ChatRaises, Stream(<< <<"o", "k">> >>, FALSE) } }

\* the replies of the provider to a transformation
TransformReplies ==
    { ChatRaises, Stream(<< <<"o", "k">> >>, FALSE), Stream(<< <<"o">> >>, TRUE) }

(***************************************************************************)
(* The inputs of the sidebar that are enumerated                           *)
(***************************************************************************)
\* config.json; a key that is absent or null reads as <<>> (default_provider)
\* or NoModel (the default models)
Configs ==
    [ default_provider :
          { <<>>, <<"o", "l", "l", "a", "m", "a">>,
            <<"W", "A", "T", "S", "O", "N", "X">>, <<"a">>,
            <<"n", "o", "n", "e", "x", "i", "s", "t", "e", "n", "t">> },
      default_model : { NoModel, "mistral", "llama3" },
      providers : [ ollama : { NoModel, "", "mistral", "zephyr" },
                    watsonx : { NoModel, "mistral" } ] ]

\* the configuration load_config returns when there is no config.json
FallbackConfig ==
    [ default_provider |-> <<>>, default_model |-> NoModel,
      providers |-> [ollama |-> NoModel, watsonx |-> NoModel] ]

Listings == { ListRaises, <<>>, <<"mistral">>, <<"llama3", "mistral">> }

(***************************************************************************)
(* The inputs of load_config and load_templates that are enumerated        *)
(***************************************************************************)
EmailName == <<"E", "m", "a", "i", "l">>
MyFixName == <<"M", "y", " ", "F", "i", "x">>

\* the values of the "templates" key
ConfigTemplates ==
    { <<>>,
      (EmailName :> <<"E", ":">>),
      (EmailName :> <<"E", ":">>) @@ (MyFixName :> <<"F", ":">>) }

\* the values of the "providers" key
ConfigProviders ==
    { <<>>, [ollama |-> [default_model |-> "zephyr"]] }

\* a key that is absent, or present with one of the values
OptionalField(k, values) == { <<>> } \cup { (k :> v) : v \in values }

\* the objects config.json holds: every key is optional
ConfigDicts ==
    { a @@ b @@ c @@ d :
        a \in OptionalField("default_provider", { <<"o", "l", "l", "a", "m", "a">> }),
        b \in OptionalField("default_model", { "mistral" }),
        c \in OptionalField("providers", ConfigProviders),
        d \in OptionalField("templates", ConfigTemplates) }

ConfigFiles ==
    { NoFile, MalformedFile, OSErrorFile, BadUtf8File } \cup
    { JsonFile(d) : d \in ConfigDicts }

EmailTxt == <<"e", "m", "a", "i", "l", ".", "t", "x", "t">>
MyFixTxt == <<"m", "y", "_", "f", "i", "x", ".", "t", "x", "t">>
MyFixTxt2 == <<"M", "Y", " ", "f", "i", "x", ".", "t", "x", "t">>
NotesMd == <<"n", "o", "t", "e", "s", ".", "m", "d">>

TemplateDirs ==
    { NoDir,
      Dir(<<>>),
      Dir(<< Entry(EmailTxt, TextFile(<<" ", "e", " ">> \o Ref(<<"g">>) \o <<"\n">>)) >>),
      Dir(<< Entry(EmailTxt, OSErrorFile) >>),
      Dir(<< Entry(EmailTxt, BadUtf8File) >>),
      Dir(<< Entry(NotesMd, TextFile(<<"n">>)), Entry(MyFixTxt, TextFile(<<"f">>)) >>),
      Dir(<< Entry(MyFixTxt, TextFile(<<"f">>)), Entry(MyFixTxt2, TextFile(<<"F">>)) >>),
      Dir(<< Entry(MyFixTxt2, TextFile(<<"F">>)), Entry(MyFixTxt, TextFile(<<"f">>)) >>),
      Dir(<< Entry(MyFixTxt, OSErrorFile), Entry(EmailTxt, TextFile(<<"e">>)) >>),
      Dir(<< Entry(EmailTxt, TextFile(<<"e">>)), Entry(MyFixTxt, BadUtf8File) >>),
      Dir(<< Entry(DotTxt, TextFile(<<"d">>)) >>) }

(***************************************************************************)
(* Initial values of the parts a specification does not exercise           *)
(***************************************************************************)
ExpandIdle == arg = <<>> /\ text = <<>> /\ passes = 0 /\ pc = "idle"

\* a run of the script that is no chat submission
NoRun(o) ==
    /\ outcome' = o
    /\ list_models' = list_models
    /\ selected_model' = selected_model
    /\ prompt' = <<>>
    /\ reply' = ChatRaises
    /\ payload' = <<>>
    /\ prior' = messages
    /\ template' = <<>>
    /\ user_text' = <<>>

SidebarIdle ==
    /\ provider_names = <<>> /\ listing = <<>> /\ config = FallbackConfig
    /\ side = "start" /\ default_provider_index = 0
    /\ selected_provider_name = <<>> /\ default_index = 0

TemplatesIdle ==
    /\ config_file = NoFile /\ template_dir = NoDir
    /\ templates = <<>> /\ loading = "start"

SessionStart ==
    /\ messages = <<>> /\ system_prompt = <<>> /\ uploaded_files = <<>>
    /\ outcome = "none" /\ list_models = <<>> /\ selected_model = NoModel
    /\ prompt = <<>>
    /\ reply = ChatRaises /\ payload = <<>> /\ prior = <<>>
    /\ template = <<>> /\ user_text = <<>>
    /\ entered = <<>>

(***************************************************************************)
(* Specification SpecExpand: one call of process_prompt, pass by pass      *)
(***************************************************************************)
frame == Frame(pc, text, passes)

SetFrame(f) == pc' = f.pc /\ text' = f.text /\ passes' = f.passes

InitExpand ==
    /\ fs \in FileSystems
    /\ arg \in Texts
    /\ text = arg
    /\ passes = 0
    /\ pc = "idle"
    /\ SessionStart
    /\ TemplatesIdle
    /\ SidebarIdle

\* process_prompt(arg) is called with the empty text and returns it at once
CallEmpty ==
    /\ pc = "idle" /\ arg = <<>>
    /\ SetFrame(Enter(arg))
    /\ UNCHANGED <<fs, templateVars, arg, sessionVars, runVars, entered, sidebarVars>>

CallNonEmpty ==
    /\ pc = "idle" /\ arg # <<>>
    /\ SetFrame(Enter(arg))
    /\ UNCHANGED <<fs, templateVars, arg, sessionVars, runVars, entered, sidebarVars>>

\* a pass whose re.sub raises
PassRaises ==
    /\ pc = "loop" /\ LoopBody(frame, fs).pc = "raised"
    /\ SetFrame(LoopBody(frame, fs))
    /\ UNCHANGED <<fs, templateVars, arg, sessionVars, runVars, entered, sidebarVars>>

\* a pass that changes nothing: break
PassBreaks ==
    /\ pc = "loop" /\ LoopBody(frame, fs).pc = "done" /\ LoopBody(frame, fs).text = text
    /\ SetFrame(LoopBody(frame, fs))
    /\ UNCHANGED <<fs, templateVars, arg, sessionVars, runVars, entered, sidebarVars>>

\* a pass that changes the text
PassChanges ==
    /\ pc = "loop" /\ LoopBody(frame, fs).pc # "raised" /\ LoopBody(frame, fs).text # text
    /\ SetFrame(LoopBody(frame, fs))
    /\ UNCHANGED <<fs, templateVars, arg, sessionVars, runVars, entered, sidebarVars>>

NextExpand == CallEmpty \/ CallNonEmpty \/ PassRaises \/ PassBreaks \/ PassChanges

SpecExpand == InitExpand /\ [][NextExpand]_vars

(***************************************************************************)
(* Specification Spec: the chat mode and the text transformation, one      *)
(* action per run of the script                                            *)
(***************************************************************************)
Init ==
    /\ fs = FsChat
    /\ ExpandIdle
    /\ SessionStart
    /\ SidebarIdle
    /\ TemplatesIdle

\* the user edits the system prompt in the sidebar
SetSystemPrompt ==
    /\ \E s \in SystemPrompts \ {system_prompt} : system_prompt' = s
    /\ NoRun("none")
    /\ UNCHANGED <<fs, templateVars, expandVars, sidebarVars, messages, uploaded_files, entered>>

\* the user changes the files held by the uploader
Attach ==
    /\ \E u \in UploadSets \ {uploaded_files} : uploaded_files' = u
    /\ NoRun("none")
    /\ UNCHANGED <<fs, templateVars, expandVars, sidebarVars, messages, system_prompt, entered>>

\* the Reset button: the Conversation and the system prompt are cleared, and
\* the new uploader_key gives the uploader and the system prompt fresh widgets
Reset ==
    /\ messages' = <<>>
    /\ system_prompt' = <<>>
    /\ uploaded_files' = <<>>
    /\ entered' = <<>>
    /\ NoRun("reset")
    /\ UNCHANGED <<fs, templateVars, expandVars, sidebarVars>>

\* a submission while no model is selected: st.error and st.stop
SubmitNoModel ==
    /\ \E p \in Prompts, names \in ChatListings :
        /\ SelectableModels(names) = {NoModel}
        /\ \E r \in { Submission(NoModel, messages, system_prompt, uploaded_files,
                                  p, ChatRaises, fs) } :
               /\ messages' = r.messages
               /\ payload' = r.payload
               /\ outcome' = r.outcome
        /\ prompt' = p
        /\ list_models' = names
    /\ selected_model' = NoModel
    /\ reply' = ChatRaises /\ prior' = messages
    /\ template' = <<>> /\ user_text' = <<>>
    /\ UNCHANGED <<fs, templateVars, expandVars, sidebarVars, system_prompt,
                   uploaded_files, entered>>

\* a submission whose prompt cannot be expanded: process_prompt raises before
\* anything is appended and the exception ends the run
SubmitExpandRaises ==
    /\ \E p \in Prompts, names \in ChatListings :
        \E m \in SelectableModels(names) \ {NoModel} :
            /\ ~process_prompt(p, fs).ok
            /\ \E r \in { Submission(m, messages, system_prompt, uploaded_files,
                                      p, ChatRaises, fs) } :
                   /\ messages' = r.messages
                   /\ payload' = r.payload
                   /\ outcome' = r.outcome
            /\ prompt' = p
            /\ list_models' = names
            /\ selected_model' = m
    /\ reply' = ChatRaises /\ prior' = messages
    /\ template' = <<>> /\ user_text' = <<>>
    /\ UNCHANGED <<fs, templateVars, expandVars, sidebarVars, system_prompt,
                   uploaded_files, entered>>

\* a submission that reaches the append of the user's message
SubmitTurn ==
    /\ Len(messages) < 2 * MaxTurns
    /\ \E p \in Prompts, rep \in Replies, names \in ChatListings :
        \E m \in SelectableModels(names) \ {NoModel} :
            /\ process_prompt(p, fs).ok
            /\ \E r \in { Submission(m, messages, system_prompt, uploaded_files,
                                      p, rep, fs) } :
                   /\ messages' = r.messages
                   /\ payload' = r.payload
                   /\ outcome' = r.outcome
            /\ prompt' = p
            /\ reply' = rep
            /\ list_models' = names
            /\ selected_model' = m
            /\ entered' = entered \o << [text |-> p, files |-> Len(uploaded_files)],
                                        [text |-> <<>>, files |-> 0] >>
    /\ prior' = messages
    /\ template' = <<>> /\ user_text' = <<>>
    /\ UNCHANGED <<fs, templateVars, expandVars, sidebarVars, system_prompt, uploaded_files>>

\* the Reset button of the text transformation: the text area and the system
\* prompt are cleared and the new uploader_key gives the widgets fresh keys;
\* the Conversation is kept
TransformReset ==
    /\ system_prompt' = <<>>
    /\ uploaded_files' = <<>>
    /\ NoRun("t_reset")
    /\ UNCHANGED <<fs, templateVars, expandVars, sidebarVars, messages, entered>>

Next ==
    \/ SetSystemPrompt
    \/ Attach
    \/ Reset
    \/ SubmitNoModel
    \/ SubmitExpandRaises
    \/ SubmitTurn
    \/ TransformReset

Spec == Init /\ [][Next]_vars

(***************************************************************************)
(* Specification SpecTransform: the text transformation of a session that  *)
(* holds a Conversation of the chat mode                                   *)
(***************************************************************************)
InitTransform ==
    /\ fs = FsChat
    /\ ExpandIdle
    /\ SidebarIdle
    /\ TemplatesIdle
    /\ \E c \in Sessions : messages = c.messages /\ entered = c.entered
    /\ system_prompt \in SystemPrompts
    /\ uploaded_files = <<>>
    /\ outcome = "none" /\ list_models = <<>> /\ selected_model = NoModel
    /\ prompt = <<>>
    /\ reply = ChatRaises /\ payload = <<>> /\ prior = messages
    /\ template = <<>> /\ user_text = <<>>

\* the Transform button of the text transformation
Transform ==
    /\ \E names \in ChatListings, tm \in TemplateBodies, ut \in UserTexts,
          rep \in TransformReplies, m \in Models \cup {NoModel} :
        /\ m \in SelectableModels(names)
        /\ list_models' = names
        /\ \E r \in { Transformation(m, system_prompt, tm, ut, rep, fs) } :
               /\ payload' = r.payload
               /\ outcome' = r.outcome
               /\ reply' = IF r.payload # <<>> THEN rep ELSE ChatRaises
        /\ selected_model' = m
        /\ template' = tm
        /\ user_text' = ut
    /\ prompt' = <<>>
    /\ prior' = messages
    /\ UNCHANGED <<fs, templateVars, expandVars, sidebarVars, sessionVars, entered>>

NextTransform ==
    \/ SetSystemPrompt
    \/ Transform
    \/ TransformReset

SpecTransform == InitTransform /\ [][NextTransform]_vars

(***************************************************************************)
(* Specification SpecTemplates: one run of the script in the text          *)
(* transformation mode, from the sidebar's load_config to load_templates    *)
(***************************************************************************)
InitTemplates ==
    /\ fs = FsEmpty
    /\ ExpandIdle
    /\ SessionStart
    /\ SidebarIdle
    /\ config_file \in ConfigFiles
    /\ template_dir \in TemplateDirs
    /\ templates = <<>>
    /\ loading = "start"

\* the sidebar: config = load_config(), then the config.get calls
SidebarLoadsConfig ==
    /\ loading = "start"
    /\ \E c \in { load_config(config_file) } :
        IF c.ok
        THEN config' = ConfigView(c.value) /\ loading' = "sidebar"
        ELSE config' = config /\ loading' = "sidebar_raised"
    /\ UNCHANGED <<fs, expandVars, sessionVars, runVars, entered, provider_names,
                   listing, side, default_provider_index, selected_provider_name,
                   default_index, config_file, template_dir, templates>>

\* the text transformation mode: templates = load_templates()
LoadTemplates ==
    /\ loading = "sidebar"
    /\ \E t \in { load_templates(config_file, template_dir) } :
        IF t.ok
        THEN templates' = t.value /\ loading' = "templates"
        ELSE templates' = templates /\ loading' = "templates_raised"
    /\ UNCHANGED <<fs, expandVars, sessionVars, runVars, entered, sidebarVars,
                   config_file, template_dir>>

NextTemplates ==
    \/ SidebarLoadsConfig
    \/ LoadTemplates

SpecTemplates == InitTemplates /\ [][NextTemplates]_vars

(***************************************************************************)
(* Specification SpecSidebar: the sidebar of one session                   *)
(***************************************************************************)
InitSidebar ==
    /\ fs = FsEmpty
    /\ ExpandIdle
    /\ SessionStart
    /\ TemplatesIdle
    /\ \E ollama \in BOOLEAN, watsonx \in BOOLEAN :
           provider_names = available_providers(ollama, watsonx)
    /\ listing \in [{OllamaName, WatsonxName} -> Listings]
    /\ config \in Configs
    /\ side = "start"
    /\ default_provider_index = 0
    /\ selected_provider_name = <<>>
    /\ default_index = 0

sidebarInputs == <<provider_names, listing, config>>

\* no provider is available: st.stop()
NoProviders ==
    /\ side = "start" /\ provider_names = <<>>
    /\ side' = "stopped"
    /\ UNCHANGED <<fs, templateVars, expandVars, sessionVars, runVars, entered, sidebarInputs,
                   default_provider_index, selected_provider_name, default_index>>

\* the provider selectbox is drawn with its default
ResolveProvider ==
    /\ side = "start" /\ provider_names # <<>>
    /\ default_provider_index' = ProviderIndex(provider_names, config)
    /\ selected_provider_name' = provider_names[ProviderIndex(provider_names, config) + 1]
    /\ side' = "provider"
    /\ UNCHANGED <<fs, templateVars, expandVars, sessionVars, runVars, entered, sidebarInputs,
                   default_index>>

\* the user selects another provider
ChooseProvider ==
    /\ side \in {"provider", "model", "no_model"}
    /\ \E k \in 1..Len(provider_names) :
        /\ provider_names[k] # selected_provider_name
        /\ selected_provider_name' = provider_names[k]
    /\ side' = "provider"
    /\ UNCHANGED <<fs, templateVars, expandVars, sessionVars, runVars, entered, sidebarInputs,
                   default_provider_index, default_index>>

\* list_models raises: st.error, selected_model = None
ListModelsRaises ==
    /\ side = "provider" /\ listing[selected_provider_name] = ListRaises
    /\ selected_model' = NoModel
    /\ side' = "no_model"
    /\ UNCHANGED <<fs, templateVars, expandVars, sessionVars, entered, sidebarInputs,
                   outcome, list_models, prompt, reply, payload, prior, template,
                   user_text,
                   default_provider_index, selected_provider_name, default_index>>

\* list_models returns no model: st.warning, selected_model = None
ListModelsEmpty ==
    /\ side = "provider" /\ listing[selected_provider_name] = <<>>
    /\ selected_model' = NoModel
    /\ side' = "no_model"
    /\ UNCHANGED <<fs, templateVars, expandVars, sessionVars, entered, sidebarInputs,
                   outcome, list_models, prompt, reply, payload, prior, template,
                   user_text,
                   default_provider_index, selected_provider_name, default_index>>

\* the model selectbox is drawn with its default
ResolveModel ==
    /\ side = "provider"
    /\ listing[selected_provider_name] \notin {ListRaises, <<>>}
    /\ default_index' = ModelIndex(listing[selected_provider_name],
                                   selected_provider_name, config)
    /\ selected_model' = listing[selected_provider_name][
                             ModelIndex(listing[selected_provider_name],
                                        selected_provider_name, config) + 1]
    /\ side' = "model"
    /\ UNCHANGED <<fs, templateVars, expandVars, sessionVars, entered, sidebarInputs,
                   outcome, list_models, prompt, reply, payload, prior, template,
                   user_text,
                   default_provider_index, selected_provider_name>>

NextSidebar ==
    \/ NoProviders
    \/ ResolveProvider
    \/ ChooseProvider
    \/ ListModelsRaises
    \/ ListModelsEmpty
    \/ ResolveModel

SpecSidebar == InitSidebar /\ [][NextSidebar]_vars

(***************************************************************************)
(* Notions the statements about process_prompt are written in              *)
(***************************************************************************)
\* t after n passes of re.sub (Raised once a pass raised)
RECURSIVE SubN(_, _, _)
SubN(t, n, files) ==
    IF n = 0 THEN Ok(t)
    ELSE LET r == SubN(t, n - 1, files) IN IF r.ok THEN re_sub(r.text, files) ELSE Raised

\* the start indices of the references of t: the matches re.sub finds
RECURSIVE RefsFrom(_, _)
RefsFrom(t, i) ==
    IF i > Len(t) THEN {}
    ELSE IF MatchEnd(t, i) = 0 THEN RefsFrom(t, i + 1)
    ELSE {i} \cup RefsFrom(t, MatchEnd(t, i) + 1)

Refs(t) == RefsFrom(t, 1)
PathAt(t, i) == SubSeq(t, i + 2, MatchEnd(t, i) - 1)
Before(t, i) == SubSeq(t, 1, i - 1)
After(t, i) == SubSeq(t, MatchEnd(t, i) + 1, Len(t))
HasChar(t, c) == \E k \in 1..Len(t) : t[k] = c

\* every "@" of t begins a reference, and no path holds an "@"
Tidy(t) ==
    /\ \A i \in 1..Len(t) : t[i] = "@" => i \in Refs(t)
    /\ \A i \in Refs(t) : ~HasChar(PathAt(t, i), "@")

Readable(p, files) == p \in DOMAIN files /\ files[p].kind = "text"

\* t and every file reachable from it through at most n references are tidy
RECURSIVE TidyAll(_, _, _)
TidyAll(t, files, n) ==
    /\ Tidy(t)
    /\ n > 0 => \A i \in Refs(t) :
                   Readable(PathAt(t, i), files)
                       => TidyAll(Strip(files[PathAt(t, i)].content), files, n - 1)

Max(S) == CHOOSE x \in S : \A y \in S : y <= x

\* depth of the longest reference chain that starts in t, counted up to n
RECURSIVE Depth(_, _, _)
Depth(t, files, n) ==
    IF n = 0 \/ Refs(t) = {} THEN 0
    ELSE 1 + Max({ IF Readable(PathAt(t, i), files)
                   THEN Depth(Strip(files[PathAt(t, i)].content), files, n - 1)
                   ELSE 0 : i \in Refs(t) })

\* t ends in an "@" or in an unclosed "@[": text appended to t can be read as
\* part of a reference that starts in t
Dangling(t) ==
    \E i \in 1..Len(t) :
        /\ t[i] = "@"
        /\ \/ i = Len(t)
           \/ t[i + 1] = "[" /\ \A k \in (i + 2)..Len(t) : t[k] # "]"

\* t dangles after some number of passes
DanglesInSomePass(t, files) ==
    \E n \in 0..MaxPasses : SubN(t, n, files).ok /\ Dangling(SubN(t, n, files).text)

C6_IdempotentWhenResolved ==
    pc = "done" =>
        /\ ~HasMatch(text) => process_prompt(text, fs) = Ok(text)
        /\ ~HasMatch(arg) => text = arg
        /\ arg = <<>> => text = <<>>

C6_Witness ==
    /\ pc = "done" /\ passes = MaxPasses
    /\ HasMatch(arg) /\ ~HasMatch(text) /\ text # <<>>
    /\ process_prompt(text, fs) = Ok(text)

(***************************************************************************)
(* C7 as stated: for every reference @[p] of the text whose path does not  *)
(* exist, the result of process_prompt is the expansion of the text before *)
(* it, the marker [File not found: p], and the expansion of the text after *)
(* it.                                                                     *)
(***************************************************************************)
C7_MarkerAlwaysKept ==
    pc = "done" =>
        \A i \in Refs(arg) :
            LET p == PathAt(arg, i)
                pre == process_prompt(Before(arg, i), fs)
                post == process_prompt(After(arg, i), fs)
            IN  p \notin DOMAIN fs /\ pre.ok /\ post.ok
                    => text = pre.text \o NotFoundMarker(p) \o post.text

(***************************************************************************)
(* C7 amended: a reference @[p] to a path that does not exist never makes  *)
(* process_prompt fail, and when p holds no "@" and the text before the    *)
(* reference does not end, in any pass, in an "@" or an unclosed "@[", the *)
(* result is the expansion of the text before it, the marker               *)
(* [File not found: p], and the expansion of the text after it;            *)
(* process_prompt raises exactly when expanding the text before or after   *)
(* the reference raises.                                                   *)
(***************************************************************************)
C7_MarkerKeptUnlessRescanned ==
    pc \in {"done", "raised"} =>
        \A i \in Refs(arg) :
            LET p == PathAt(arg, i)
                pre == process_prompt(Before(arg, i), fs)
                post == process_prompt(After(arg, i), fs)
            IN  /\ p \notin DOMAIN fs
                /\ ~HasChar(p, "@")
                /\ ~DanglesInSomePass(Before(arg, i), fs)
                => IF pre.ok /\ post.ok
                   THEN pc = "done" /\ text = pre.text \o NotFoundMarker(p) \o post.text
                   ELSE pc = "raised"

C7_Witness ==
    /\ pc = "done" /\ fs = FsChain
    /\ arg = Ref(<<"c">>) \o <<" ">> \o Ref(<<"m">>)
    /\ text = <<"a", " ", "a", " ", "a", " ">> \o NotFoundMarker(<<"m">>)

(***************************************************************************)
(* C8 as stated: no read error of an existing file leaves process_prompt:  *)
(* it always returns.                                                      *)
(***************************************************************************)
C8_NoReadErrorPropagates == pc # "raised"

(***************************************************************************)
(* Notions the statements about the chat mode are written in               *)
(***************************************************************************)
\* chat() was called in the last run
Called == outcome \in {"chat_raised", "stream_raised", "completed"}

\* the last run appended the user's message
Appended == outcome \in {"history_raised", "chat_raised", "stream_raised", "completed"}

RECURSIVE Concat(_)
Concat(ss) == IF ss = <<>> THEN <<>> ELSE Head(ss) \o Concat(Tail(ss))

IsNonEmpty(c) == c # <<>>

\* the expansion of a text, for a text whose expansion does not raise
Expanded(t) == process_prompt(t, fs).text

(***************************************************************************)
(* C1 as stated: when chat() raises, or the stream raises after any number *)
(* of chunks, the turn ends with only the user's message appended: the     *)
(* Conversation is one message longer and holds no new assistant message.  *)
(***************************************************************************)
C1_FailedTurnAppendsOnlyUser ==
    outcome \in {"chat_raised", "stream_raised"} =>
        /\ Len(messages) = Len(prior) + 1
        /\ messages[Len(messages)].role = "user"

(***************************************************************************)
(* C2: when the stream is consumed to its end without an error, the        *)
(* Conversation grows by exactly two messages: the user's, then an         *)
(* assistant message whose content is the concatenation, in stream order,  *)
(* of the non-empty fragments of the stream.                               *)
(***************************************************************************)
C2_CompletedTurnAppendsPair ==
    outcome = "completed" =>
        /\ Len(messages) = Len(prior) + 2
        /\ SubSeq(messages, 1, Len(prior)) = prior
        /\ messages[Len(prior) + 1].role = "user"
        /\ messages[Len(prior) + 2] =
               Message("assistant", Concat(SelectSeq(reply.chunks, IsNonEmpty)))

C2_Witness ==
    /\ outcome = "completed"
    /\ Len(prior) = 2
    /\ reply.chunks = << <<>>, <<"o", "k">>, Ref(<<"g">>) >>
    /\ messages[4].content = <<"o", "k">> \o Ref(<<"g">>)

(***************************************************************************)
(* C3: the payload passed to chat() in a submission made with N stored     *)
(* messages is: the system message iff the system prompt is non-empty,     *)
(* then the N stored messages in order, roles kept, each content expanded  *)
(* on its own, then a user message with the expanded prompt and, if files  *)
(* are attached, the file block; N + 1 messages, one more with a system    *)
(* prompt, and no system message anywhere but first.                       *)
(***************************************************************************)
C3_PayloadShape ==
    Called =>
        LET N == Len(prior)
            s == IF system_prompt # <<>> THEN 1 ELSE 0
        IN  /\ Len(payload) = N + 1 + s
            /\ s = 1 => payload[1] = Message("system", system_prompt)
            /\ \A k \in 1..Len(payload) : payload[k].role = "system" <=> (k = 1 /\ s = 1)
            /\ \A i \in 1..N :
                   payload[s + i] = Message(prior[i].role, Expanded(prior[i].content))
            /\ payload[s + N + 1] =
                   Message("user",
                           IF uploaded_files # <<>>
                           THEN Expanded(prompt) \o file_contents(uploaded_files)
                           ELSE Expanded(prompt))

C3_Witness ==
    /\ Called
    /\ Len(prior) = 2 /\ Len(payload) = 4
    /\ system_prompt # <<>> /\ uploaded_files # <<>>
    /\ HasMatch(prompt)
    /\ HasMatch(prior[1].content) /\ ~HasMatch(payload[2].content)
    /\ HasMatch(prior[2].content) /\ ~HasMatch(payload[3].content)

Min(S) == CHOOSE x \in S : \A y \in S : x <= y

\* the provider selectbox has been drawn
ProviderResolved == side \in {"provider", "model", "no_model"}

\* the positions of the provider names that hold the configured default,
\* letter case ignored
MatchingProviders ==
    { k \in 1..Len(provider_names) :
          Contains(lower(provider_names[k]), lower(config.default_provider)) }

\* the configured defaults that apply to the selected provider
ProviderDefault ==
    IF selected_provider_name = OllamaName
    THEN config.providers.ollama ELSE config.providers.watsonx

ListedModels == listing[selected_provider_name]

(***************************************************************************)
(* C9: the default provider is the first available name that holds the     *)
(* configured name as a substring, letter case ignored; it is the first    *)
(* available name when none does or when no default is configured; it is   *)
(* always one of the available names.                                      *)
(***************************************************************************)
C9_DefaultProvider ==
    ProviderResolved =>
        /\ default_provider_index + 1 \in 1..Len(provider_names)
        /\ IF config.default_provider # <<>> /\ MatchingProviders # {}
           THEN default_provider_index + 1 = Min(MatchingProviders)
           ELSE default_provider_index = 0

C9_Witness ==
    /\ side = "provider"
    /\ provider_names = <<OllamaName, WatsonxName>>
    /\ config.default_provider = <<"W", "A", "T", "S", "O", "N", "X">>
    /\ default_provider_index = 1
    /\ selected_provider_name = WatsonxName

(***************************************************************************)
(* C10 as stated: the default model is a listed model; it is the           *)
(* provider's configured default when that is listed, else the global      *)
(* default when that is listed, and the first listed model only when       *)
(* neither is listed.                                                      *)
(***************************************************************************)
C10_DefaultModel ==
    side = "model" =>
        LET result == ListedModels[default_index + 1] IN
        /\ default_index + 1 \in 1..Len(ListedModels)
        /\ InList(ListedModels, ProviderDefault) => result = ProviderDefault
        /\ ~InList(ListedModels, ProviderDefault)
               /\ InList(ListedModels, config.default_model)
               => result = config.default_model
        /\ ~InList(ListedModels, ProviderDefault)
               /\ ~InList(ListedModels, config.default_model)
               => default_index = 0

(***************************************************************************)
(* Notions the statements about the text transformation are written in     *)
(***************************************************************************)
\* the last run was a press of the Transform button
TransformRun ==
    outcome \in {"t_no_model", "t_no_text", "t_expand_raised",
                 "t_chat_raised", "t_stream_raised", "transformed"}

\* chat() was called by the transformation of the last run
TransformCalled == outcome \in {"t_chat_raised", "t_stream_raised", "transformed"}

(***************************************************************************)
(* C11: the payload a transformation passes to chat() is the system        *)
(* message iff the system prompt is non-empty, then one user message whose *)
(* content is the expanded template body, two newlines and the expanded    *)
(* user text; it holds nothing of the Conversation, and a transformation,  *)
(* successful or failed, leaves the Conversation as it was.                *)
(***************************************************************************)
C11_TransformationPayload ==
    /\ TransformRun => messages = prior
    /\ TransformRun /\ ~TransformCalled => payload = <<>>
    /\ TransformCalled =>
        LET s == IF system_prompt # <<>> THEN 1 ELSE 0 IN
        /\ Len(payload) = 1 + s
        /\ s = 1 => payload[1] = Message("system", system_prompt)
        /\ payload[1 + s] =
               Message("user", Expanded(template) \o <<"\n", "\n">>
                                   \o Expanded(user_text))

C11_Witness ==
    /\ outcome = "t_stream_raised"
    /\ Len(messages) = 2 /\ messages = prior
    /\ system_prompt = <<"S">>
    /\ HasMatch(template) /\ HasMatch(user_text)
    /\ Len(payload) = 2
    /\ payload[2].content = <<"T", " ", "W", "\n", "\n", "x", " ", "W">>

(***************************************************************************)
(* Notions the statements about the Conversation are written in            *)
(***************************************************************************)
\* every message of a keeps its position, role and content in b
IsPrefix(a, b) == Len(a) <= Len(b) /\ SubSeq(b, 1, Len(a)) = a

(***************************************************************************)
(* C12: in every step the Conversation either keeps every stored message   *)
(* at its position with its role and content, new messages coming only at  *)
(* its end, or the step is the Reset of the chat mode; and a Reset leaves   *)
(* the Conversation empty.                                                 *)
(***************************************************************************)
C12_AppendOrReset ==
    [][ /\ outcome' = "reset" => messages' = <<>>
        /\ outcome' # "reset" => IsPrefix(messages, messages') ]_vars

C12_Witness ==
    /\ outcome = "reset"
    /\ Len(prior) = 2 * MaxTurns
    /\ HasMatch(prior[1].content)
    /\ messages = <<>>

(***************************************************************************)
(* Notions the statements about load_config and load_templates are written *)
(* in                                                                      *)
(***************************************************************************)
\* no file of the templates directory holds bytes that are not UTF-8
DirDecodable ==
    \A k \in 1..Len(template_dir.entries) : template_dir.entries[k].file.kind # "badutf8"

\* the run ended in an exception that left load_config or load_templates
LoadingAborted == loading \in {"sidebar_raised", "templates_raised"}

(***************************************************************************)
(* C13 as stated: whatever config.json is (absent, unreadable, malformed,  *)
(* or an object that omits any of default_provider, default_model,         *)
(* providers, templates), no exception leaves the loading of the           *)
(* configuration: the sidebar and load_templates go on with the defaults.  *)
(***************************************************************************)
C13_ConfigLoadingNeverAborts == DirDecodable => ~LoadingAborted

\* the templates config.json declares, for a configuration that has the key
\* or fell back to the default dictionary
HasDeclared ==
    config_file.kind = "json" => "templates" \in DOMAIN config_file.content

Declared ==
    IF config_file.kind = "json" THEN config_file.content["templates"] ELSE <<>>

\* the entries of the templates directory that are template files, and those
\* of them that can be read
TemplateFiles ==
    { k \in 1..Len(template_dir.entries) :
        EndsWith(template_dir.entries[k].filename, DotTxt) }

ReadableFiles == { k \in TemplateFiles : template_dir.entries[k].file.kind = "text" }

DisplayName(k) == template_name(template_dir.entries[k].filename)

(***************************************************************************)
(* C14 as stated: load_templates returns the merge of the declared         *)
(* templates and the template files: its names are the declared names and  *)
(* the display names of the files that can be read; a declared template    *)
(* with no such file keeps its body; a display name has the stripped       *)
(* content of the last file read under it; and a template file that        *)
(* cannot be read is skipped, the others staying.                          *)
(***************************************************************************)
C14_MergeOfSources ==
    (loading \in {"templates", "templates_raised"} /\ HasDeclared) =>
        /\ loading = "templates"
        /\ DOMAIN templates =
               DOMAIN Declared \cup { DisplayName(k) : k \in ReadableFiles }
        /\ \A n \in DOMAIN Declared :
               (\A k \in ReadableFiles : DisplayName(k) # n)
                   => templates[n] = Declared[n]
        /\ \A k \in ReadableFiles :
               (\A j \in ReadableFiles : j > k => DisplayName(j) # DisplayName(k))
                   => templates[DisplayName(k)] =
                          Strip(template_dir.entries[k].file.content)

(***************************************************************************)
(* C15: a chat submission made in a run whose list_models() raised or      *)
(* returned no model finds no model selected, does not call chat() and     *)
(* leaves the Conversation as it was: no message is appended.              *)
(***************************************************************************)
C15_NoModelNoTurn ==
    (prompt # <<>> /\ (list_models = ListRaises \/ list_models = <<>>)) =>
        /\ selected_model = NoModel
        /\ outcome = "no_model"
        /\ ~Called
        /\ payload = <<>>
        /\ messages = prior

C15_Witness ==
    /\ outcome = "no_model"
    /\ list_models = ListRaises
    /\ prompt = <<"H", "i">>
    /\ Len(messages) = 2 /\ messages = prior
    /\ payload = <<>>

(***************************************************************************)
(* C16: between runs the Conversation holds no system message, its         *)
(* messages are in turn the user's and the assistant's, the first being    *)
(* the user's, and their number is even; so after submissions that         *)
(* completed or failed in chat() or in the stream, and after resets.       *)
(***************************************************************************)
C16_RolesAlternate ==
    /\ Len(messages) % 2 = 0
    /\ \A k \in 1..Len(messages) :
        /\ messages[k].role # "system"
        /\ messages[k].role = IF k % 2 = 1 THEN "user" ELSE "assistant"

C16_Witness ==
    /\ outcome = "chat_raised"
    /\ Len(prior) = 2 /\ Len(messages) = 4
    /\ system_prompt # <<>>
    /\ prior[2].content # <<>>
    /\ messages[3].role = "user"
    /\ messages[4] = Message("assistant", <<>>)

====
